---- MODULE Spec2Model ----
(***************************************************************************)
(* Risk aggregation and action decision engine of the content moderation   *)
(* service: RiskAgent.evaluate (agents/risk_agent.py) followed by          *)
(* ActionAgent.determine_actions (agents/action_agent.py), as the          *)
(* /moderate handler runs them (main.py), the in-process MessageBus        *)
(* (communication_protocol.py), and the review queue over the audit log    *)
(* (main.py, agents/audit_agent.py).                                       *)
(*                                                                         *)
(* Number representation                                                   *)
(*   confidences (classifier scores)   integers, unit 0.001                *)
(*   thresholds and weights            integers, unit 0.01                 *)
(*   contributions and scores          integers, unit 0.0001               *)
(*   the running risk_score            a binary64 value, kept as the pair  *)
(*                                     [hi, lo] with value                 *)
(*                                     (hi * 2^30 + lo) * 2^-57            *)
(* The running score is a Python float: its additions round to 53          *)
(* significant bits, and the level is derived from it before the score is  *)
(* rounded to 4 decimals, so the binary value is kept exactly.             *)
(***************************************************************************)
EXTENDS Integers, Sequences, FiniteSets, TLC

\* the results of the first pass over an item that is evaluated a second time
VARIABLE first_run

----------------------------------------------------------------------------
(* binary64 arithmetic on the values the score can take: 0 and [2^-5, 16)  *)

Limb == 2 ^ 30

Pow2(n) == 2 ^ n

\* number of bits of the natural number n < 2^31 in excess of 23: hi holds
\* the top 23 bits of a 53-bit significand
ExcessBits(n) ==
    IF n < Pow2(27)
    THEN IF n < Pow2(25)
         THEN IF n < Pow2(23) THEN 0 ELSE IF n < Pow2(24) THEN 1 ELSE 2
         ELSE IF n < Pow2(26) THEN 3 ELSE 4
    ELSE IF n < Pow2(29)
         THEN IF n < Pow2(28) THEN 5 ELSE 6
         ELSE IF n < Pow2(30) THEN 7 ELSE 8

FZero == [hi |-> 0, lo |-> 0]

FLess(x, y) == x.hi < y.hi \/ (x.hi = y.hi /\ x.lo < y.lo)

FMax(x, y) == IF FLess(x, y) THEN y ELSE x

FMin(x, y) == IF FLess(y, x) THEN y ELSE x

\* n / 625 with the quotient in hi and the remainder (out of 625) in rem
Quotient625(n) == [hi |-> n \div 625, lo |-> 0, rem |-> n % 625]

\* the next m-fold digit of the quotient pushed into hi, and into lo
PushHi(e, m) ==
    [hi |-> e.hi * m + (e.rem * m) \div 625, lo |-> e.lo, rem |-> (e.rem * m) % 625]

PushLo(e, m) ==
    [hi |-> e.hi, lo |-> e.lo * m + (e.rem * m) \div 625, rem |-> (e.rem * m) % 625]

\* floor(n * 2^52 / 625) as [hi, lo] with the remainder rem (out of 625):
\* n / 20000 in units of 2^-57
ExactQ(n) ==
    PushLo(PushLo(PushLo(PushHi(PushHi(Quotient625(n), 2048), 2048), 1024), 1024), 1024)

\* the tail r (out of q) of the significand, with rem/625 below it, rounds up;
\* odd tells whether the kept part is odd
RoundsUp(r, q, rem, odd) ==
    \/ 2 * r > q
    \/ 2 * r = q /\ rem > 0
    \/ 2 * r = q /\ rem = 0 /\ odd
    \/ q = 1 /\ 2 * rem > 625

\* a low limb that reached 2^30 carries into hi
Carry(hi, lo) == IF lo = Limb THEN [hi |-> hi + 1, lo |-> 0] ELSE [hi |-> hi, lo |-> lo]

\* hi * 2^30 + lo + rem/625 rounded to a multiple of q, ties to even
RoundAt(hi, lo, rem, q) ==
    Carry(hi, (lo - (lo % q))
              + (IF RoundsUp(lo % q, q, rem, (lo \div q) % 2 = 1) THEN q ELSE 0))

\* round-to-nearest-even of hi * 2^30 + lo + rem/625 to 53 significant bits
RoundNearestEven(hi, lo, rem) == RoundAt(hi, lo, rem, Pow2(ExcessBits(hi)))

RoundExact(e) == RoundNearestEven(e.hi, e.lo, e.rem)

\* the float literal k / 10000 (k >= 0): the double nearest to the decimal
FromDecimal(k) == RoundExact(ExactQ(2 * k))

\* x + y in binary64
FAdd(x, y) ==
    RoundNearestEven(x.hi + y.hi + (x.lo + y.lo) \div Limb, (x.lo + y.lo) % Limb, 0)

\* x * 10^4 is (hi * 2^30 + lo) * 625 / 2^53; the product in 15-bit digits,
\* each with the carries of the digits below it
Low625(x) == (x.lo \div 32768) * 625 + ((x.lo % 32768) * 625) \div 32768

Mid625(x) == (x.hi % 32768) * 625 + Low625(x) \div 32768

\* floor(x * 10^4 * 256)
Top625(x) == (x.hi \div 32768) * 625 + Mid625(x) \div 32768

\* x * 10^4 * 256 is no integer
Sticky625(x) ==
    \/ Mid625(x) % 32768 # 0
    \/ Low625(x) % 32768 # 0
    \/ ((x.lo % 32768) * 625) % 32768 # 0

\* t / 256 (plus a non-zero rest when sticky) rounded to an integer, ties to even
RoundHalfEven256(t, sticky) ==
    IF \/ t % 256 > 128
       \/ t % 256 = 128 /\ (sticky \/ (t \div 256) % 2 = 1)
    THEN t \div 256 + 1
    ELSE t \div 256

\* round(x, 4) in units of 0.0001: the multiple of 0.0001 nearest to the
\* exact binary value, a tie going to the even multiple
Round4(x) == RoundHalfEven256(Top625(x), Sticky625(x))

----------------------------------------------------------------------------
(* Python values                                                           *)

None == [none |-> TRUE]

IsNone(v) == DOMAIN v = {"none"}

\* a float or int value, in units of 0.001
Num(n) == [num |-> n]

\* a string value that float() does not parse
Str(s) == [str |-> s]

IsNum(v) == "num" \in DOMAIN v

\* dict.get(k, default)
Get(d, k, default) == IF k \in DOMAIN d THEN d[k] ELSE default

EmptyDict == [k \in {} |-> 0]

Range(f) == {f[i] : i \in DOMAIN f}

\* round-half-even of p / d for d > 0
RoundDiv(p, d) ==
    LET q == p \div d
        r == p % d
    IN  IF 2 * r > d \/ (2 * r = d /\ q % 2 = 1) THEN q + 1 ELSE q

\* "%.2f" of h / 100, h >= 0
Fmt2(h) ==
    ToString(h \div 100) \o "." \o ToString((h % 100) \div 10) \o ToString(h % 10)

\* sep.join(parts)
RECURSIVE Join(_, _)
Join(sep, parts) ==
    IF parts = <<>> THEN ""
    ELSE IF Len(parts) = 1 THEN parts[1]
    ELSE parts[1] \o sep \o Join(sep, Tail(parts))

----------------------------------------------------------------------------
(* Text: a sequence of atoms, each a run of word characters or a single    *)
(* non-word character, with the set of atoms written in upper case         *)

NonWordAtoms == {" ", "!", "'"}

IsWord(a) == a \notin NonWordAtoms

Text(atoms, caps) == [atoms |-> atoms, caps |-> caps]

EmptyText == Text(<<>>, {})

\* text or ""
OrEmpty(text) == IF IsNone(text) THEN EmptyText ELSE text

\* str.lower()
lower(t) == Text(t.atoms, {})

\* str.isupper(): at least one cased character and no lower-case one
isupper(t) ==
    LET cased == {i \in DOMAIN t.atoms : IsWord(t.atoms[i])}
    IN  cased # {} /\ cased \subseteq t.caps

\* str.count(ch) for a one-character atom
count(t, ch) == Cardinality({i \in DOMAIN t.atoms : t.atoms[i] = ch})

\* len(str)
RECURSIVE SumLen(_)
SumLen(atoms) == IF atoms = <<>> THEN 0 ELSE Len(Head(atoms)) + SumLen(Tail(atoms))

len(t) == SumLen(t.atoms)

\* the words of a phrase separated by single spaces
RECURSIVE Sp(_)
Sp(ws) == IF Len(ws) <= 1 THEN ws ELSE <<ws[1], " ">> \o Sp(Tail(ws))

\* the lower-case literal p occurs at atom i of t between two \b
MatchAt(p, t, i) ==
    LET a == t.atoms
        j == i + Len(p) - 1
    IN  /\ j <= Len(a)
        /\ \A n \in 1..Len(p) : a[i + n - 1] = p[n] /\ (i + n - 1) \notin t.caps
        /\ i = 1 \/ ~IsWord(a[i - 1])
        /\ j = Len(a) \/ ~IsWord(a[j + 1])

\* re.search(r"\b(p1|p2|...)\b", t)
re_search(alternatives, t) ==
    \E p \in alternatives : \E i \in DOMAIN t.atoms : MatchAt(p, t, i)

_threat_patterns ==
    << {Sp(<<"kill", "you">>)},
       {Sp(<<"i", "will", "kill">>)},
       {Sp(<<"i", "will", "hurt">>)},
       {Sp(<<"i", "want", "to", "die">>), Sp(<<"kill", "myself">>), <<"suicide">>},
       {<<"murder">>},
       {<<"rape">>} >>

_sexual_request_patterns ==
    << {Sp(<<"send", "nudes">>)},
       {Sp(<<"send", "pics">>)},
       {Sp(<<"show", "me", "nude">>)},
       {Sp(<<"send", "pictures">>)} >>

SelfHarmPhrases ==
    {Sp(<<"kill", "myself">>), Sp(<<"want", "to", "die">>),
     Sp(<<"i", "want", "to", "die">>), <<"suicide">>}

DirectThreatPhrases ==
    {Sp(<<"i", "will", "kill", "you">>),
     <<"i", "'", "m", " ">> \o Sp(<<"going", "to", "kill">>),
     Sp(<<"i", "will", "murder">>),
     Sp(<<"i", "will", "hurt", "you">>)}

SolicitationPhrases ==
    {Sp(<<"send", "nudes">>), Sp(<<"send", "pics">>),
     Sp(<<"show", "me", "nude">>), Sp(<<"send", "pictures">>)}

----------------------------------------------------------------------------
(* RiskAgent                                                               *)

\* self.weights.items(): the categories in the dict order of DEFAULT_WEIGHTS
CategoryOrder ==
    <<"violence", "hate_speech", "profanity", "sexual", "spam", "threat">>

Categories == Range(CategoryOrder)

\* trigger thresholds, unit 0.01
DEFAULT_THRESHOLDS ==
    [violence |-> 30, hate_speech |-> 40, profanity |-> 50,
     sexual |-> 40, spam |-> 60, threat |-> 30]

\* weights, unit 0.01
DEFAULT_WEIGHTS ==
    [violence |-> 70, hate_speech |-> 50, profanity |-> 25,
     sexual |-> 60, spam |-> 20, threat |-> 80]

\* variant: High starts at 0.90
LEVELS_high_from_090 == [low |-> 3000, medium |-> 9000]

\* level boundaries, unit 0.0001
LEVELS == [low |-> 3000, medium |-> 7000]

\* lines 38-40: self.thresholds, self.weights and self.levels of the RiskAgent
VARIABLES thresholds, weights, levels

configVars == <<thresholds, weights, levels>>

\* variant: a value float() rejects counts as full confidence
NormalizePessimistic(classification) ==
    LET c == IF IsNone(classification) THEN EmptyDict ELSE classification
    IN  [k \in DOMAIN c |-> IF IsNum(c[k]) THEN c[k].num ELSE 1000]

\* lines 78-83: float(v), a value float() rejects becoming 0.0
Normalize(classification) ==
    LET c == IF IsNone(classification) THEN EmptyDict ELSE classification
    IN  [k \in DOMAIN c |-> IF IsNum(c[k]) THEN c[k].num ELSE 0]

\* round(cat_score * weight, 4), unit 0.0001.  The confidences of the inputs
\* below are even multiples of 0.001, so cat_score * weight is never halfway
\* between two multiples of 0.0001 and the float product rounds as the decimal.
Contribution(cat_score, weight) == RoundDiv(cat_score * weight, 10)

\* f"{cat} > {threshold:.2f} (score {cat_score:.2f})"
ThresholdReason(cat, threshold, cat_score) ==
    cat \o " > " \o Fmt2(threshold) \o " (score " \o Fmt2(RoundDiv(cat_score, 10)) \o ")"

\* variant: the accumulator is an attribute that outlives the call
StaleAccumulator ==
    IF IsNone(first_run) THEN [risk_score |-> FZero, reasons |-> <<>>]
    ELSE [risk_score |-> FromDecimal(first_run.risk.score),
          reasons    |-> first_run.risk.reasons]

\* lines 85-87: risk_score = 0.0 and reasons = [] at the start of every call
InitialAccumulator == [risk_score |-> FZero, reasons |-> <<>>]

\* variant: "risk_score = contribution" in place of "risk_score += contribution"
OverwriteCategory(acc, normalized, cat) ==
    IF Get(normalized, cat, 0) > Get(thresholds, cat, 40) * 10
    THEN [risk_score |-> FromDecimal(Contribution(Get(normalized, cat, 0),
                                                  weights[cat])),
          reasons    |-> Append(acc.reasons, cat)]
    ELSE acc

\* variant: "cat_score >= threshold" in place of "cat_score > threshold"
AddCategoryInclusive(acc, normalized, cat) ==
    IF Get(normalized, cat, 0) >= Get(thresholds, cat, 40) * 10
    THEN [risk_score |-> FAdd(acc.risk_score,
                              FromDecimal(Contribution(Get(normalized, cat, 0),
                                                       weights[cat]))),
          reasons    |-> Append(acc.reasons,
                                ThresholdReason(cat, Get(thresholds, cat, 40),
                                                Get(normalized, cat, 0)))]
    ELSE acc

\* lines 90-97: one pass of the loop, for the category cat
AddCategory(acc, normalized, cat) ==
    IF Get(normalized, cat, 0) > Get(thresholds, cat, 40) * 10
    THEN [risk_score |-> FAdd(acc.risk_score,
                              FromDecimal(Contribution(Get(normalized, cat, 0),
                                                       weights[cat]))),
          reasons    |-> Append(acc.reasons,
                                ThresholdReason(cat, Get(thresholds, cat, 40),
                                                Get(normalized, cat, 0)))]
    ELSE acc

\* lines 85-97 after the first n categories: the running risk_score and reasons
RECURSIVE Combine(_, _)
Combine(normalized, n) ==
    IF n = 0 THEN InitialAccumulator
    ELSE AddCategory(Combine(normalized, n - 1), normalized, CategoryOrder[n])

\* lines 91-92: contributions[cat] of every category
Contributions(normalized) ==
    [cat \in Categories |-> Contribution(Get(normalized, cat, 0), weights[cat])]

\* "boost += amount" under a condition
BoostIf(condition, boost, amount) ==
    IF condition THEN FAdd(boost, FromDecimal(amount)) ELSE boost

MatchesAny(patterns, text_l) ==
    \E n \in DOMAIN patterns : re_search(patterns[n], text_l)

\* variant: no "break", every matching threat pattern adds its 0.25
_evaluate_text_features_no_break(text_l) ==
    FMin(BoostIf(isupper(text_l) /\ len(text_l) > 10,
                 BoostIf(count(text_l, "!") > 2,
                         BoostIf(MatchesAny(_sexual_request_patterns, text_l),
                                 BoostIf(Cardinality({n \in DOMAIN _threat_patterns :
                                           re_search(_threat_patterns[n], text_l)}) >= 2,
                                         BoostIf(MatchesAny(_threat_patterns, text_l), FZero, 2500),
                                         2500),
                                 2000),
                         500),
                 1000),
         FromDecimal(10000))

_evaluate_text_features(text_l) ==
    FMin(BoostIf(isupper(text_l) /\ len(text_l) > 10,
                 BoostIf(count(text_l, "!") > 2,
                         BoostIf(MatchesAny(_sexual_request_patterns, text_l),
                                 BoostIf(MatchesAny(_threat_patterns, text_l), FZero, 2500),
                                 2000),
                         500),
                 1000),
         FromDecimal(10000))

\* variant: the self-harm family gets the floor of the direct threats
_apply_keyword_boosts_one_floor(text_l, current_score) ==
    IF re_search(SelfHarmPhrases \cup DirectThreatPhrases, text_l)
    THEN FMax(current_score, FromDecimal(8000))
    ELSE IF re_search(SolicitationPhrases, text_l)
    THEN FMax(current_score, FromDecimal(6000))
    ELSE current_score

\* variant: the three tests in the opposite order
_apply_keyword_boosts_lowest_first(text_l, current_score) ==
    IF re_search(SolicitationPhrases, text_l)
    THEN FMax(current_score, FromDecimal(6000))
    ELSE IF re_search(DirectThreatPhrases, text_l)
    THEN FMax(current_score, FromDecimal(8000))
    ELSE IF re_search(SelfHarmPhrases, text_l)
    THEN FMax(current_score, FromDecimal(8500))
    ELSE current_score

_apply_keyword_boosts(text_l, current_score) ==
    IF re_search(SelfHarmPhrases, text_l)
    THEN FMax(current_score, FromDecimal(8500))
    ELSE IF re_search(DirectThreatPhrases, text_l)
    THEN FMax(current_score, FromDecimal(8000))
    ELSE IF re_search(SolicitationPhrases, text_l)
    THEN FMax(current_score, FromDecimal(6000))
    ELSE current_score

\* variant: max(0.0, risk_score), the upper clamp left out
ClampLowerOnly(risk_score) == FMax(FZero, risk_score)

\* line 109: max(0.0, min(1.0, risk_score))
Clamp(risk_score) == FMax(FZero, FMin(FromDecimal(10000), risk_score))

_get_level(score) ==
    IF FLess(score, FromDecimal(Get(levels, "low", 3000))) THEN "Low"
    ELSE IF FLess(score, FromDecimal(Get(levels, "medium", 7000))) THEN "Medium"
    ELSE "High"

\* `last` put into the sequence `rest` after its first k entries
InsertAt(rest, last, k) ==
    SubSeq(rest, 1, k) \o <<last>> \o SubSeq(rest, k + 1, Len(rest))

\* variant: `last` goes before the entries that are equal to it
InsertDescBeforeEqual(contributions, rest, last) ==
    InsertAt(rest, last,
             Cardinality({i \in DOMAIN rest :
                             contributions[rest[i]] > contributions[last]}))

\* `last` put into the descending sequence `rest`, after the entries that are
\* not smaller
InsertDesc(contributions, rest, last) ==
    InsertAt(rest, last,
             Cardinality({i \in DOMAIN rest :
                             contributions[rest[i]] >= contributions[last]}))

\* sorted(items, key=contribution, reverse=True): stable, equal contributions
\* keep the order of `order`
RECURSIVE SortedDesc(_, _)
SortedDesc(contributions, order) ==
    IF order = <<>> THEN <<>>
    ELSE InsertDesc(contributions,
                    SortedDesc(contributions, SubSeq(order, 1, Len(order) - 1)),
                    order[Len(order)])

\* f"text features boost +{text_boost:.2f}"
BoostReason(text_boost) ==
    "text features boost +" \o Fmt2(RoundDiv(Round4(text_boost), 100))

\* lines 100-103: the text boost added to the running score, with its reason
AddTextBoost(acc, text_boost) ==
    IF FLess(FZero, text_boost)
    THEN [risk_score |-> FAdd(acc.risk_score, text_boost),
          reasons    |-> Append(acc.reasons, BoostReason(text_boost))]
    ELSE acc

\* lines 114-119: the categories with a contribution > 0, `kept` being their
\* names in descending order of contribution
TopContributorList(normalized, contributions, kept) ==
    [i \in DOMAIN kept |->
        [category     |-> kept[i],
         contribution |-> contributions[kept[i]],
         score        |-> Get(normalized, kept[i], 0)]]

KeptPositive(contributions, sorted) ==
    SelectSeq(sorted, LAMBDA c : contributions[c] > 0)

\* lines 114-128: the returned dict for the clamped risk_score
ReturnValue(risk_score, reasons, normalized, contributions, uuid) ==
    [score            |-> Round4(risk_score),
     level            |-> _get_level(risk_score),
     reasons          |-> reasons,
     contributions    |-> contributions,
     top_contributors |->
         TopContributorList(normalized, contributions,
                            KeptPositive(contributions,
                                         SortedDesc(contributions, CategoryOrder))),
     audit_id         |-> uuid]

\* lines 105-128: floors, clamp, level and result from the accumulators acc
Finish(acc, normalized, text_l, uuid) ==
    ReturnValue(Clamp(_apply_keyword_boosts(text_l, acc.risk_score)),
                acc.reasons, normalized, Contributions(normalized), uuid)

\* variant: the loop runs over the keys of the scores, a key without a weight
\* or a threshold getting the defaults 0.5 and 0.4
AddUnconfigured(acc, normalized) ==
    IF "normal" \in DOMAIN normalized /\ normalized["normal"] > 400
    THEN [risk_score |-> FAdd(acc.risk_score,
                              FromDecimal(Contribution(normalized["normal"], 50))),
          reasons    |-> Append(acc.reasons,
                                ThresholdReason("normal", 40, normalized["normal"]))]
    ELSE acc

EvaluateNormalizedAllKeys(normalized, text_l, uuid) ==
    Finish(AddTextBoost(AddUnconfigured(Combine(normalized, Len(CategoryOrder)),
                                        normalized),
                        _evaluate_text_features(text_l)),
           normalized, text_l, uuid)

\* lines 85-128 for the normalized scores and the lower-cased text
EvaluateNormalized(normalized, text_l, uuid) ==
    Finish(AddTextBoost(Combine(normalized, Len(CategoryOrder)),
                        _evaluate_text_features(text_l)),
           normalized, text_l, uuid)

\* evaluate(classification, text), with uuid the value uuid.uuid4() draws
evaluate(classification, text, uuid) ==
    EvaluateNormalized(Normalize(classification), lower(OrEmpty(text)), uuid)

----------------------------------------------------------------------------
(* ActionAgent                                                             *)

\* variant: the Low row holds the actions of the High row
ACTION_MAP_low_as_high ==
    LET row == [sexual      |-> <<"Block content", "Ban user", "Flag for human review">>,
                threat      |-> <<"Block content", "Ban user", "Flag for human review">>,
                violence    |-> <<"Block content", "Ban user", "Flag for human review">>,
                hate_speech |-> <<"Block content", "Ban user", "Flag for human review">>,
                profanity   |-> <<"Block content", "Flag for human review">>,
                spam        |-> <<"Auto-delete content", "Flag for human review">>]
    IN  [High |-> row,
         Medium |->
            [sexual      |-> <<"Flag for human review">>,
             threat      |-> <<"Flag for human review">>,
             violence    |-> <<"Flag for human review">>,
             hate_speech |-> <<"Flag for human review">>,
             profanity   |-> <<"Warn user", "Flag for human review">>,
             spam        |-> <<"Warn user", "Flag for human review">>],
         Low |-> row]

ACTION_MAP ==
    [High |->
        [sexual      |-> <<"Block content", "Ban user", "Flag for human review">>,
         threat      |-> <<"Block content", "Ban user", "Flag for human review">>,
         violence    |-> <<"Block content", "Ban user", "Flag for human review">>,
         hate_speech |-> <<"Block content", "Ban user", "Flag for human review">>,
         profanity   |-> <<"Block content", "Flag for human review">>,
         spam        |-> <<"Auto-delete content", "Flag for human review">>],
     Medium |->
        [sexual      |-> <<"Flag for human review">>,
         threat      |-> <<"Flag for human review">>,
         violence    |-> <<"Flag for human review">>,
         hate_speech |-> <<"Flag for human review">>,
         profanity   |-> <<"Warn user", "Flag for human review">>,
         spam        |-> <<"Warn user", "Flag for human review">>],
     Low |->
        [sexual      |-> <<"No action required">>,
         threat      |-> <<"No action required">>,
         violence    |-> <<"No action required">>,
         hate_speech |-> <<"No action required">>,
         profanity   |-> <<"No action required">>,
         spam        |-> <<"No action required">>]]

CATEGORY_EXPLANATIONS ==
    [sexual      |-> "This content includes sexual requests or explicit material.",
     threat      |-> "This content contains threats or harmful intent.",
     violence    |-> "This content promotes violence or harm.",
     hate_speech |-> "This content contains hateful language.",
     profanity   |-> "This content includes strong or offensive language.",
     spam        |-> "This content appears to be spam or promotional."]

CATEGORY_POLICIES ==
    [sexual      |-> <<"Do not allow sexual requests or explicit content.">>,
     threat      |-> <<"Threatening content must be blocked and reported.">>,
     violence    |-> <<"Violence-promoting content must be blocked immediately.">>,
     hate_speech |-> <<"Hateful or discriminatory content must be blocked.">>,
     profanity   |-> <<"Offensive language should be flagged for review.">>,
     spam        |-> <<"Spam content should be removed automatically or warned.">>]

\* action thresholds, unit 0.01
CATEGORY_THRESHOLDS ==
    [sexual |-> 60, threat |-> 50, violence |-> 50,
     hate_speech |-> 50, profanity |-> 60, spam |-> 60]

\* the stand-in of the warning-sign separator of the banner
BannerSeparator == " /!\\ "

get_policy(category) ==
    Get(CATEGORY_POLICIES, category, <<"Follow platform moderation rules.">>)

\* contrib.get("category"): a missing key gives None, which is in no table
CategoryOf(contrib) == Get(contrib, "category", "None")

\* variant: "score > threshold" in place of "score >= threshold"
MeetsActionThresholdExclusive(contrib) ==
    Get(contrib, "score", 0) > Get(CATEGORY_THRESHOLDS, CategoryOf(contrib), 50) * 10

\* line 85: the contributor's raw score meets the category's action threshold
MeetsActionThreshold(contrib) ==
    Get(contrib, "score", 0) >= Get(CATEGORY_THRESHOLDS, CategoryOf(contrib), 50) * 10

\* lines 80-97: the contributors that pass the action threshold, in order
Fired(contributions) == SelectSeq(contributions, MeetsActionThreshold)

\* variant: High adds the review flag only
EscalateFlagOnly(risk_level, selected_actions) ==
    IF risk_level \in {"High", "Medium"}
    THEN selected_actions \cup {"Flag for human review"}
    ELSE selected_actions

\* variant: only High escalates
EscalateHighOnly(risk_level, selected_actions) ==
    IF risk_level = "High"
    THEN selected_actions \cup {"Flag for human review", "Block content"}
    ELSE selected_actions

\* lines 99-105: level-wide escalation
Escalate(risk_level, selected_actions) ==
    IF risk_level = "High"
    THEN selected_actions \cup {"Flag for human review", "Block content"}
    ELSE IF risk_level = "Medium"
    THEN selected_actions \cup {"Flag for human review"}
    ELSE selected_actions

\* variant: no fallback
FallbackOmitted(selected_actions) == selected_actions

\* variant: "No action required" is added whatever was selected
FallbackAlways(selected_actions) == selected_actions \cup {"No action required"}

\* lines 107-109: the canonical no-action result when nothing was selected
Fallback(selected_actions) ==
    IF selected_actions = {} THEN {"No action required"} ELSE selected_actions

\* lines 113-118
LevelBanner(risk_level) ==
    IF risk_level = "High"
    THEN "Content violates safety guidelines - review required"
    ELSE IF risk_level = "Medium"
    THEN "Content may need review - check for context"
    ELSE "Content appears safe"

\* sentence 2 of _build_explanation from top_contributors[:3]
TopParts(top_contributors) ==
    LET n == IF Len(top_contributors) < 3 THEN Len(top_contributors) ELSE 3
    IN  [i \in 1..n |->
            Get(top_contributors[i], "category", "unknown") \o " (" \o
            Fmt2(RoundDiv(Get(top_contributors[i], "score", 0), 10)) \o ")"]

\* lines 173-177 raise: classification.items() of None, or a value that is
\* no number under sorted() or "{v:.2f}"
FallbackRaises(classification) ==
    \/ IsNone(classification)
    \/ \E k \in DOMAIN classification : k # "normal" /\ ~IsNum(classification[k])

\* lines 174-177: the keys other than "normal", by value descending, first 3
FallbackItems(classification) ==
    LET keys   == SelectSeq(CategoryOrder, LAMBDA k : k \in DOMAIN classification)
        values == [k \in Range(keys) |-> classification[k].num]
        sorted == SortedDesc(values, keys)
        n      == IF Len(sorted) < 3 THEN Len(sorted) ELSE 3
    IN  [i \in 1..n |-> sorted[i] \o " (" \o Fmt2(RoundDiv(values[sorted[i]], 10)) \o ")"]

_build_explanation(risk_level, reasons, selected_actions, nlp_analysis, classification, top_contributors) ==
    LET sentence1 == "This content is assessed as " \o risk_level \o
                     " risk based on aggregated category scores and heuristics."
        sentence2 ==
            IF top_contributors # <<>>
            THEN "Top contributing factors include " \o
                 Join(", ", TopParts(top_contributors)) \o "."
            ELSE IF FallbackItems(classification) # <<>>
            THEN "Top contributing factors include " \o
                 Join(", ", FallbackItems(classification)) \o "."
            ELSE "No specific harmful categories were prominent."
        summary   == Get(nlp_analysis, "summary", "")
        entities  == Get(nlp_analysis, "entities", <<>>)
        ent_text  == Join(", ", SubSeq(entities, 1,
                                       IF Len(entities) < 4 THEN Len(entities) ELSE 4))
        summary_text ==
            IF summary # "" /\ ent_text # ""
            THEN "NLP analysis notes: " \o summary \o " Key entities: " \o ent_text \o "."
            ELSE IF summary # "" THEN "NLP analysis notes: " \o summary
            ELSE IF ent_text # "" THEN "Detected entities include: " \o ent_text \o "."
            ELSE "NLP analysis did not surface additional notable context."
    IN  [sentence1    |-> sentence1,
         sentence2    |-> sentence2,
         summary_text |-> summary_text,
         recommended  |-> selected_actions]

\* determine_actions(risk_result, classification, nlp_analysis): the result, or
\* [raised |-> TRUE] when the call ends with an exception
determine_actions(risk_result, classification, nlp_analysis) ==
    LET risk_level    == Get(risk_result, "level", "Low")
        reasons       == Get(risk_result, "reasons", <<>>)
        contributions == Get(risk_result, "top_contributors", <<>>)
        fired         == Fired(contributions)
        by_category   == UNION {Range(Get(Get(ACTION_MAP, risk_level, EmptyDict),
                                          CategoryOf(fired[i]), <<>>)) :
                                i \in DOMAIN fired}
        policy_texts  == UNION {Range(get_policy(CategoryOf(fired[i]))) :
                                i \in DOMAIN fired}
        explained     == SelectSeq(fired,
                                   LAMBDA c : CategoryOf(c) \in DOMAIN CATEGORY_EXPLANATIONS)
        escalated     == Escalate(risk_level, by_category)
        selected_actions == Fallback(escalated)
        friendly_reasons ==
            IF escalated = {} THEN <<"No safety issues detected">>
            ELSE [i \in DOMAIN explained |-> CATEGORY_EXPLANATIONS[CategoryOf(explained[i])]]
        banner_message ==
            IF friendly_reasons # <<>> THEN Join(BannerSeparator, friendly_reasons)
            ELSE LevelBanner(risk_level)
    IN  IF contributions = <<>> /\ FallbackRaises(classification)
        THEN [raised |-> TRUE]
        ELSE [actions        |-> selected_actions,
              banner_message |-> banner_message,
              policies       |-> policy_texts,
              explanation    |-> _build_explanation(risk_level, reasons, selected_actions,
                                                    IF IsNone(nlp_analysis) THEN EmptyDict
                                                    ELSE nlp_analysis,
                                                    classification, contributions)]

----------------------------------------------------------------------------
(* MessageBus: _messages maps a receiver id to {"from": ..., "data": ...}  *)

\* variant: a message that is already waiting is kept, the new one dropped
send_first_wins(messages, sender, receiver, data) ==
    IF receiver \in DOMAIN messages THEN messages
    ELSE [r \in DOMAIN messages \cup {receiver} |->
             IF r = receiver THEN [from |-> sender, data |-> data] ELSE messages[r]]

\* self._messages[receiver] = {"from": sender, "data": data}
send(messages, sender, receiver, data) ==
    [r \in DOMAIN messages \cup {receiver} |->
        IF r = receiver THEN [from |-> sender, data |-> data] ELSE messages[r]]

\* msg = self._messages.get(receiver); msg["data"] if msg else None
receive(messages, receiver) ==
    IF receiver \in DOMAIN messages THEN messages[receiver].data ELSE None

\* del self._messages[receiver] when the receiver has a message
clear(messages, receiver) ==
    [r \in DOMAIN messages \ {receiver} |-> messages[r]]

----------------------------------------------------------------------------
(* Inputs                                                                  *)

\* at most MaxActive categories get a non-zero confidence from the classifier
MaxActive == 3

\* at most MaxMalformed entries of a mapping handed to evaluate directly are
\* missing, unparsable, out of [0,1] or non-zero
MaxMalformed == 2

\* at most MaxContributors entries in a top_contributors list handed to
\* determine_actions directly
MaxContributors == 2

\* at most MaxOps calls are made on one MessageBus
MaxOps == 3

\* confidences of a valid CategoryScore, unit 0.001
ConfValues == {0, 496, 564, 602}

ValidScores ==
    {c \in [Categories -> ConfValues] :
        Cardinality({k \in Categories : c[k] # 0}) <= MaxActive}

\* the scores of two classified items: a threat, and spam alone
ScenarioScores ==
    { [k \in Categories |-> IF k = "threat" THEN 900 ELSE IF k = "violence" THEN 750 ELSE 0],
      [k \in Categories |-> IF k = "spam" THEN 650 ELSE 0] }

\* main.py lines 141-145: the classifier's scores with the derived "normal" score
WithNormal(c) ==
    LET max_harm_score == CHOOSE m \in Range(c) : \A k \in DOMAIN c : c[k] <= m
    IN  [k \in Categories \cup {"normal"} |->
            IF k = "normal" THEN Num(1000 - max_harm_score) ELSE Num(c[k])]

Absent == [absent |-> TRUE]

RawValues == {Absent, Str("abc"), Num(-500), Num(0), Num(600), Num(1500)}

\* mappings with any keys among the six categories and any values
RawClassifications ==
    LET full == {c \in [Categories -> RawValues] :
                    Cardinality({k \in Categories : c[k] # Num(0)}) <= MaxMalformed}
    IN  {[k \in {k \in Categories : c[k] # Absent} |-> c[k]] : c \in full}

Texts ==
    { EmptyText,
      Text(Sp(<<"want", "to", "die">>), {}),
      Text(Sp(<<"i", "want", "to", "die">>), {1, 3, 5, 7}),
      Text(<<"suicide", "s">>, {}),
      Text(Sp(<<"i", "will", "kill", "you">>), {1}),
      Text(<<"i", "'", "m", " ">> \o Sp(<<"going", "to", "kill">>), {}),
      Text(Sp(<<"send", "nudes">>), {}),
      Text(<<"hello", "!", "!", "!">>, {}),
      Text(<<"helloworlds">>, {1}),
      Text(Sp(<<"i", "will", "kill", "you">>) \o <<" ">> \o Sp(<<"send", "nudes">>)
               \o <<"!", "!", "!">>, {}),
      Text(Sp(<<"kill", "myself">>) \o <<" ">> \o Sp(<<"i", "will", "hurt", "you">>)
               \o <<" ">> \o Sp(<<"send", "pics">>), {}),
      Text(Sp(<<"murder">>) \o <<" ">> \o Sp(<<"send", "pictures">>), {1}),
      Text(Sp(<<"hello", "world">>), {}) }

\* main.py line 89: the content texts of the requests to /moderate, as
\* sanitize_input returns them (none holds a character it rewrites)
PipelineTexts ==
    { EmptyText,
      Text(Sp(<<"want", "to", "die">>), {}),
      Text(Sp(<<"i", "will", "kill", "you">>), {1}),
      Text(Sp(<<"send", "nudes">>), {}),
      Text(<<"hello", "!", "!", "!">>, {}),
      Text(Sp(<<"hello", "world">>), {}) }

NlpAnalyses ==
    { EmptyDict,
      [summary |-> "A short message.", entities |-> <<"Alice", "Paris">>] }

ContributorEntries ==
    {[category |-> c, score |-> s] :
        c \in {"violence", "sexual", "profanity", "spam", "other"},
        s \in {450, 500, 600}}
    \cup {[score |-> 600], [category |-> "violence"]}

RECURSIVE SeqsUpTo(_, _)
SeqsUpTo(S, n) ==
    IF n = 0 THEN {<<>>}
    ELSE LET shorter == SeqsUpTo(S, n - 1)
         IN  shorter \cup {Append(q, e) : q \in shorter, e \in S}

\* risk results as a caller may hand them to determine_actions
RiskResults ==
    {[level |-> l, reasons |-> <<>>, top_contributors |-> t] :
        l \in {"Low", "Medium", "High", "Critical"},
        t \in SeqsUpTo(ContributorEntries, MaxContributors)}
    \cup {[top_contributors |-> t] : t \in SeqsUpTo(ContributorEntries, MaxContributors)}

\* the values uuid.uuid4() may draw
AuditIds == {"1f0c9a7e", "b42d3c68"}

\* the agents that talk over the bus, and what they send
BusAgents == {"classifier", "risk_assessor"}

BusData == {Str("pending"), Str("done")}

----------------------------------------------------------------------------
(* The state machine: one content item handed to evaluate and then to      *)
(* determine_actions, and the same item handed to them a second time       *)

VARIABLES
    pc,              \* "idle", "submitted", "evaluated", "resolved", "raised",
                     \* "stored" (answered 200), "failed" (answered 500)
    classification,  \* the classification argument
    text,            \* the text argument
    nlp_analysis,    \* the nlp_analysis argument
    risk_result,     \* what evaluate returned
    action_result,   \* what determine_actions returned
    stored,          \* what the handler handed to the retrieval store and the audit log
    _messages,       \* MessageBus._messages
    returned,        \* the receiver and the return value of the last receive
    history,         \* the calls made on the bus, in order
    classification_result,  \* what classify_content returned: its status
    response,        \* what moderate_content returned: status and body
    audit_logs,      \* the rows of the table audit_logs, in the order of insertion
    system_events,   \* the rows of the table system_events
    review_response, \* the answer to the last request to /api/review/...
    reviews          \* the requests to /api/review/decision, in order

busVars == <<_messages, returned, history>>

handlerVars == <<classification_result, response>>

reviewVars == <<audit_logs, system_events, review_response, reviews>>

vars == <<pc, classification, text, nlp_analysis, risk_result, action_result, first_run, stored, _messages, returned, history, thresholds, weights, levels, classification_result, response, audit_logs, system_events, review_response, reviews>>

Init ==
    /\ pc = "idle"
    /\ classification = None
    /\ text = None
    /\ nlp_analysis = None
    /\ risk_result = None
    /\ action_result = None
    /\ first_run = None
    /\ stored = None
    /\ _messages = EmptyDict
    /\ returned = None
    /\ history = <<>>
    /\ thresholds = DEFAULT_THRESHOLDS
    /\ weights = DEFAULT_WEIGHTS
    /\ levels = LEVELS
    /\ classification_result = None
    /\ response = None
    /\ audit_logs = <<>>
    /\ system_events = <<>>
    /\ review_response = None
    /\ reviews = <<>>

\* main.py lines 141-149: a classified item with its "normal" score reaches evaluate
Submit ==
    /\ pc = "idle"
    /\ \E c \in ValidScores \cup ScenarioScores, t \in PipelineTexts :
          /\ classification' = WithNormal(c)
          /\ text' = t
    /\ nlp_analysis' = EmptyDict
    /\ classification_result' = [status |-> "success"]
    /\ pc' = "submitted"
    /\ UNCHANGED <<risk_result, action_result, first_run, stored, response, busVars, reviewVars, configVars>>

\* main.py lines 136-140: classify_content returns status "error"
\* (classifier_agent.py lines 168-171) and the handler answers 500
ClassifyFails ==
    /\ pc = "idle"
    /\ \E t \in PipelineTexts : text' = t
    /\ nlp_analysis' = EmptyDict
    /\ classification_result' = [status |-> "error"]
    /\ response' = [status |-> 500, error |-> "Classification failed"]
    /\ pc' = "failed"
    /\ UNCHANGED <<classification, risk_result, action_result, first_run, stored, busVars, reviewVars, configVars>>

\* a caller hands evaluate any mapping or None and any text or None
CallEvaluate ==
    /\ pc = "idle"
    /\ \E c \in RawClassifications \cup {None}, t \in Texts \cup {None} :
          /\ classification' = c
          /\ text' = t
    /\ nlp_analysis' = None
    /\ pc' = "submitted"
    /\ UNCHANGED <<risk_result, action_result, first_run, stored, busVars, reviewVars, configVars, handlerVars>>

\* a caller hands determine_actions a risk result of its own making
CallDetermineActions ==
    /\ pc = "idle"
    /\ \E r \in RiskResults, n \in NlpAnalyses, c \in {EmptyDict, None} :
          /\ risk_result' = r
          /\ nlp_analysis' = n
          /\ classification' = c
    /\ pc' = "evaluated"
    /\ UNCHANGED <<text, action_result, first_run, stored, busVars, reviewVars, configVars, handlerVars>>

\* variant: the agent adapts, every call lowering the threshold of the
\* categories it found above their threshold
EvaluateAdapting ==
    /\ pc = "submitted"
    /\ \E uuid \in AuditIds : risk_result' = evaluate(classification, text, uuid)
    /\ pc' = "evaluated"
    /\ thresholds' =
          [cat \in DOMAIN thresholds |->
              IF Get(Normalize(classification), cat, 0) > thresholds[cat] * 10
              THEN thresholds[cat] - 10 ELSE thresholds[cat]]
    /\ UNCHANGED <<classification, text, nlp_analysis, action_result, first_run, stored, busVars, reviewVars, weights, levels, handlerVars>>

\* risk_agent.evaluate(classification, text=content_text)
Evaluate ==
    /\ pc = "submitted"
    /\ \E uuid \in AuditIds : risk_result' = evaluate(classification, text, uuid)
    /\ pc' = "evaluated"
    /\ UNCHANGED <<classification, text, nlp_analysis, action_result, first_run, stored, busVars, reviewVars, configVars, handlerVars>>

\* action_agent.determine_actions(risk_result, classification, nlp_analysis)
DetermineActions ==
    /\ pc = "evaluated"
    /\ LET result == determine_actions(risk_result, classification, nlp_analysis)
       IN  IF "raised" \in DOMAIN result
           THEN pc' = "raised" /\ action_result' = None
           ELSE pc' = "resolved" /\ action_result' = result
    /\ UNCHANGED <<classification, text, nlp_analysis, risk_result, first_run, stored, busVars, reviewVars, configVars, handlerVars>>

\* main.py lines 157-162: retrieval_agent.store_moderation for a text item
Retrieval ==
    IF text = EmptyText THEN None
    ELSE [content        |-> text,
          classification |-> classification,
          risk_score     |-> risk_result.score,
          actions        |-> action_result.actions]

\* main.py lines 164-177: what log_moderation_decision is handed
AuditRecord ==
    [classification |-> classification,
     risk_result    |-> risk_result,
     action_result  |-> action_result]

\* main.py lines 213-229: the moderation response
Response ==
    [status     |-> 200,
     risk_score |-> [score   |-> risk_result.score,
                     level   |-> risk_result.level,
                     reasons |-> Get(risk_result, "reasons", <<>>)],
     action     |-> action_result]

\* main.py lines 231-232: the answer to an exception inside the handler
ProcessingError == [status |-> 500, error |-> "Processing error"]

\* variant: the store and audit calls come before determine_actions as well
StoreEarly ==
    /\ pc \in {"evaluated", "resolved"}
    /\ stored' = [retrieval |-> None, audit |-> AuditRecord]
    /\ response' = ProcessingError
    /\ pc' = "stored"
    /\ UNCHANGED <<classification, text, nlp_analysis, risk_result, action_result, first_run, classification_result, busVars, reviewVars, configVars>>

\* main.py lines 157-232: the decision goes to the retrieval store and to the
\* audit log, and the response is returned.  store_moderation (lines 157-162)
\* may raise, which ends the request in the handler of line 231;
\* log_moderation_decision (lines 164-211) may raise, which is passed over.
Store ==
    /\ pc = "resolved"
    /\ \/ /\ text # EmptyText
          /\ stored' = None
          /\ response' = ProcessingError
          /\ pc' = "failed"
       \/ /\ \E logged \in BOOLEAN :
                stored' = [retrieval |-> Retrieval,
                           audit     |-> IF logged THEN AuditRecord ELSE None]
          /\ response' = Response
          /\ pc' = "stored"
    /\ UNCHANGED <<classification, text, nlp_analysis, risk_result, action_result, first_run, classification_result, busVars, reviewVars, configVars>>

\* the same (scores, text) pair arrives in a second request
Resubmit ==
    /\ pc = "stored"
    /\ IsNone(first_run)
    /\ first_run' = [risk |-> risk_result, action |-> action_result]
    /\ risk_result' = None
    /\ action_result' = None
    /\ stored' = None
    /\ response' = None
    /\ pc' = "submitted"
    /\ UNCHANGED <<classification, text, nlp_analysis, classification_result, busVars, reviewVars, configVars>>

Next == Submit \/ ClassifyFails \/ Evaluate \/ DetermineActions \/ Store \/ Resubmit

Spec == Init /\ [][Next]_vars

NextApi == CallEvaluate \/ CallDetermineActions \/ Evaluate \/ DetermineActions

SpecApi == Init /\ [][NextApi]_vars

pipelineVars == <<pc, classification, text, nlp_analysis, risk_result, action_result, first_run, stored, configVars, handlerVars>>

\* bus.send(sender, receiver, data)
Send ==
    /\ Len(history) < MaxOps
    /\ \E sender \in BusAgents, receiver \in BusAgents, data \in BusData :
          /\ _messages' = send(_messages, sender, receiver, data)
          /\ history' = Append(history, [op |-> "send", receiver |-> receiver, data |-> data])
    /\ UNCHANGED <<returned, pipelineVars, reviewVars>>

\* bus.receive(receiver)
Receive ==
    /\ Len(history) < MaxOps
    /\ \E receiver \in BusAgents :
          /\ returned' = [receiver |-> receiver, data |-> receive(_messages, receiver)]
          /\ history' = Append(history, [op |-> "receive", receiver |-> receiver])
    /\ UNCHANGED <<_messages, pipelineVars, reviewVars>>

\* bus.clear(receiver)
Clear ==
    /\ Len(history) < MaxOps
    /\ \E receiver \in BusAgents :
          /\ _messages' = clear(_messages, receiver)
          /\ history' = Append(history, [op |-> "clear", receiver |-> receiver])
    /\ UNCHANGED <<returned, pipelineVars, reviewVars>>

NextBus == Send \/ Receive \/ Clear

SpecBus == Init /\ [][NextBus]_vars

----------------------------------------------------------------------------
(* The review workflow: the audit log, the review queue and the decisions   *)
(* of the moderator                                                        *)

\* at most MaxAudits decisions are written to the audit log
MaxAudits == 2

\* at most MaxDecisions requests are made to /api/review/decision
MaxDecisions == 2

\* get_review_queue asks for the latest 100 rows
TrailLimit == 100

\* audit_agent.py line 169: the audit_id of the n-th row, uuid4 giving a new
\* value every time
NewAuditId(n) == "audit-" \o ToString(n)

\* action lists as determine_actions returns them
RecordedActions ==
    { <<"No action required">>,
      <<"Block content", "Flag for human review">>,
      <<"Flag for human review", "Warn user">> }

\* the audit_id of a request: missing, of no row, or of a row
ReviewTargets(logs) ==
    {None, Str("audit-0")} \cup {Str(logs[i].audit_id) : i \in DOMAIN logs}

Decisions == {"approve", "reject", "escalate"}

\* the audit ids the text of review_notes holds
ReviewNotes(logs) == {{}} \cup {{logs[i].audit_id} : i \in DOMAIN logs \cap {1}}

\* 'flag for human review' in action.lower(): of the actions that reach the
\* audit log only "Flag for human review" holds these words
FlagMentioned(action) == action = "Flag for human review"

\* variant: the decision is appended and the flag stays
new_actions_keep_flag(current_actions, decision) ==
    current_actions
    \o (IF decision = "approve" THEN <<"Approved by moderator">>
        ELSE <<"Rejected by moderator", "Content removed">>)

\* main.py lines 420-432: the actions of the row after the decision
new_actions(current_actions, decision) ==
    SelectSeq(current_actions, LAMBDA action : ~FlagMentioned(action))
    \o (IF decision = "approve" THEN <<"Approved by moderator">>
        ELSE <<"Rejected by moderator", "Content removed">>)

\* metadata LIKE '%<audit_id>%' over the JSON text of the metadata, which holds
\* the audit_id of the decision and the review notes
MetadataLike(metadata, audit_id) ==
    metadata.audit_id = audit_id \/ audit_id \in metadata.review_notes

\* check_existing_review_decision(audit_id); readable is FALSE when the query
\* ends with an exception
check_existing_review_decision(events, audit_id, readable) ==
    /\ readable
    /\ \E i \in DOMAIN events :
          /\ events[i].event_type = "human_review_decision"
          /\ MetadataLike(events[i].metadata, audit_id)

\* audit_agent.py lines 412-437: ORDER BY timestamp DESC LIMIT limit
get_detailed_audit_trail(logs, limit) ==
    LET n == IF Len(logs) < limit THEN Len(logs) ELSE limit
    IN  [i \in 1..n |-> logs[Len(logs) + 1 - i]]

is_flagged(item) ==
    \E i \in DOMAIN item.actions_taken : FlagMentioned(item.actions_taken[i])

\* main.py lines 348-387: the flagged rows without a review decision
get_review_queue(logs, events, readable) ==
    SelectSeq(get_detailed_audit_trail(logs, TrailLimit),
              LAMBDA item :
                  /\ is_flagged(item)
                  /\ ~check_existing_review_decision(events, item.audit_id, readable))

\* main.py lines 434-441: UPDATE audit_logs SET actions_taken WHERE audit_id
UpdateActions(logs, audit_id, decision) ==
    [i \in DOMAIN logs |->
        IF logs[i].audit_id = audit_id
        THEN [logs[i] EXCEPT !.actions_taken = new_actions(@, decision)]
        ELSE logs[i]]

\* main.py lines 444-456: the row log_system_event inserts
ReviewEvent(audit_id, decision, notes) ==
    [event_type |-> "human_review_decision",
     metadata   |-> [audit_id |-> audit_id, decision |-> decision, review_notes |-> notes]]

\* audit_agent.log_moderation_decision: a decision is written to audit_logs
LogModerationDecision ==
    /\ Len(audit_logs) < MaxAudits
    /\ \E actions \in RecordedActions :
          audit_logs' = Append(audit_logs,
                               [audit_id      |-> NewAuditId(Len(audit_logs) + 1),
                                actions_taken |-> actions])
    /\ UNCHANGED <<system_events, review_response, reviews, pipelineVars, busVars>>

\* GET /api/review/queue; the table system_events may be unreadable, which
\* check_existing_review_decision answers with False
GetReviewQueue ==
    /\ \E readable \in BOOLEAN :
          review_response' =
              [status |-> 200, queue |-> get_review_queue(audit_logs, system_events, readable)]
    /\ UNCHANGED <<audit_logs, system_events, reviews, pipelineVars, busVars>>

\* lines 402-403 and 412-414: the requests that change nothing
Rejected(audit_id, decision) ==
    IF IsNone(audit_id) \/ decision \notin {"approve", "reject"} THEN 400
    ELSE IF \A i \in DOMAIN audit_logs : audit_logs[i].audit_id # audit_id.str THEN 404
    ELSE 0

\* POST /api/review/decision; log_system_event may raise after the update of
\* audit_logs is committed, which the handler answers with 500
SubmitReviewDecision ==
    /\ Len(reviews) < MaxDecisions
    /\ \E audit_id \in ReviewTargets(audit_logs), decision \in Decisions,
          notes \in ReviewNotes(audit_logs), logged \in BOOLEAN :
          IF Rejected(audit_id, decision) # 0
          THEN /\ review_response' = [status |-> Rejected(audit_id, decision)]
               /\ reviews' = Append(reviews, [audit_id |-> audit_id, decision |-> decision,
                                              status |-> Rejected(audit_id, decision)])
               /\ UNCHANGED <<audit_logs, system_events>>
          ELSE /\ audit_logs' = UpdateActions(audit_logs, audit_id.str, decision)
               /\ system_events' =
                     IF logged
                     THEN Append(system_events, ReviewEvent(audit_id.str, decision, notes))
                     ELSE system_events
               /\ review_response' =
                     IF logged THEN [status |-> 200, audit_id |-> audit_id.str]
                     ELSE [status |-> 500]
               /\ reviews' = Append(reviews, [audit_id |-> audit_id, decision |-> decision,
                                              status |-> IF logged THEN 200 ELSE 500])
    /\ UNCHANGED <<pipelineVars, busVars>>

NextReview == LogModerationDecision \/ GetReviewQueue \/ SubmitReviewDecision

SpecReview == Init /\ [][NextReview]_vars

----------------------------------------------------------------------------
(* Properties                                                              *)

\* risk_result is what evaluate returned for (classification, text)
FromEvaluate == "audit_id" \in DOMAIN risk_result

TopContributors == Get(risk_result, "top_contributors", <<>>)

RiskLevel == Get(risk_result, "level", "Low")

NoCategoryFired ==
    \A i \in DOMAIN TopContributors : ~MeetsActionThreshold(TopContributors[i])

\* the literal p occurs in t as whole words, in any letter case
Occurs(p, t) ==
    \E i \in DOMAIN t.atoms :
        /\ i + Len(p) - 1 <= Len(t.atoms)
        /\ SubSeq(t.atoms, i, i + Len(p) - 1) = p
        /\ i = 1 \/ t.atoms[i - 1] \in NonWordAtoms
        /\ i + Len(p) - 1 = Len(t.atoms) \/ t.atoms[i + Len(p)] \in NonWordAtoms

LevelRank(level) == CASE level = "Low" -> 0 [] level = "Medium" -> 1 [] level = "High" -> 2

\* C1: for every classification mapping (missing categories, values outside
\* [0,1], unparsable values) and every text, the score evaluate returns lies
\* in [0,1]
C1_ScoreInUnitInterval ==
    FromEvaluate => (risk_result.score >= 0 /\ risk_result.score <= 10000)

\* evaluate clamped the score of a mapping with a missing category and a
\* confidence above 1
C1_Witness ==
    /\ pc = "evaluated" /\ FromEvaluate
    /\ ~IsNone(classification)
    /\ \E k \in Categories : k \notin DOMAIN classification
    /\ \E k \in DOMAIN classification :
          IsNum(classification[k]) /\ classification[k].num > 1000
                                   /\ classification[k].num * DEFAULT_WEIGHTS[k] > 100000
    /\ risk_result.score = 10000

\* C2: every result of determine_actions has a non-empty actions collection,
\* and when no category meets its action threshold and the level is neither
\* High nor Medium it is exactly {"No action required"}
C2_ActionsNeverEmpty ==
    pc = "resolved" =>
        /\ action_result.actions # {}
        /\ (NoCategoryFired /\ RiskLevel \notin {"High", "Medium"})
               => action_result.actions = {"No action required"}

\* determine_actions fell back for a Low result whose contributors all stay
\* below their action thresholds
C2_Witness ==
    /\ pc = "resolved"
    /\ TopContributors # <<>> /\ NoCategoryFired
    /\ RiskLevel = "Low"
    /\ action_result.actions = {"No action required"}

\* C3: whenever the level handed to determine_actions is High, the actions
\* contain "Block content" and "Flag for human review", whichever categories
\* met their action thresholds
C3_HighBlocksAndFlags ==
    (pc = "resolved" /\ RiskLevel = "High")
        => {"Block content", "Flag for human review"} \subseteq action_result.actions

\* a High result without any contributor was resolved
C3_Witness ==
    /\ pc = "resolved" /\ RiskLevel = "High" /\ TopContributors = <<>>
    /\ {"Block content", "Flag for human review"} \subseteq action_result.actions

\* C4: whenever the level is Medium, the actions contain "Flag for human
\* review" and never "Block content"
C4_MediumFlagsNeverBlocks ==
    (pc = "resolved" /\ RiskLevel = "Medium")
        => /\ "Flag for human review" \in action_result.actions
           /\ "Block content" \notin action_result.actions

\* a Medium result with a category at its action threshold was resolved: the
\* category's own actions and the flag, no block
C4_Witness ==
    /\ pc = "resolved" /\ RiskLevel = "Medium" /\ ~NoCategoryFired
    /\ "Warn user" \in action_result.actions
    /\ "Flag for human review" \in action_result.actions
    /\ "Block content" \notin action_result.actions

\* the self-harm phrases of the claim
C5_Phrases ==
    {Sp(<<"kill", "myself">>), Sp(<<"want", "to", "die">>),
     Sp(<<"i", "want", "to", "die">>), <<"suicide">>}

\* C5: for any text in which a self-harm phrase occurs (in any letter case),
\* evaluate returns a score >= 0.85 whatever the classifier scores are
C5_SelfHarmFloor ==
    (FromEvaluate /\ ~IsNone(text) /\ \E p \in C5_Phrases : Occurs(p, text))
        => risk_result.score >= 8500

\* the floor alone made the score: an upper-case self-harm text with a mapping
\* that has an unparsable and a missing entry
C5_Witness ==
    /\ pc = "evaluated" /\ FromEvaluate
    /\ ~IsNone(text) /\ text.caps # {} /\ \E p \in C5_Phrases : Occurs(p, text)
    /\ ~IsNone(classification)
    /\ \E k \in DOMAIN classification : ~IsNum(classification[k])
    /\ \E k \in Categories : k \notin DOMAIN classification
    /\ risk_result.reasons # <<>>
    /\ risk_result.score = 8500

\* the result of evaluate with the confidence of cat raised to v
WithHigher(cat, v) ==
    evaluate([classification EXCEPT ![cat] = Num(v)], text, risk_result.audit_id)

\* C6: raising a single category's confidence, everything else the same,
\* lowers neither the score nor the level
C6_Monotone ==
    (pc = "evaluated" /\ FromEvaluate /\ IsNone(first_run)) =>
        \A cat \in Categories : \A v \in ConfValues :
            v > classification[cat].num =>
                LET second == WithHigher(cat, v)
                IN  /\ second.score >= risk_result.score
                    /\ LevelRank(second.level) >= LevelRank(risk_result.level)

\* some single raise moves a Medium result to High
C6_Witness ==
    /\ pc = "evaluated" /\ FromEvaluate /\ IsNone(first_run)
    /\ risk_result.level = "Medium"
    /\ \E cat \in Categories : \E v \in ConfValues :
          /\ v > classification[cat].num
          /\ LET second == WithHigher(cat, v)
             IN  second.level = "High" /\ second.score > risk_result.score

\* the level the boundaries 0.30 and 0.70 give to a returned score
LevelOfScore(score) ==
    IF score < 3000 THEN "Low" ELSE IF score < 7000 THEN "Medium" ELSE "High"

\* C7: the level evaluate returns is the level of the score it returns: Low iff
\* score < 0.30, Medium iff 0.30 <= score < 0.70, High iff score >= 0.70
C7_LevelMatchesReturnedScore ==
    FromEvaluate => risk_result.level = LevelOfScore(risk_result.score)

AllZero ==
    ~IsNone(classification) /\ \A k \in Categories :
        k \in DOMAIN classification /\ classification[k] = Num(0)

\* C9: for all-zero scores and empty text the level is Low, the actions are
\* {"No action required"} and the banner is "Content appears safe"
C9_AllZeroScenario ==
    (pc = "resolved" /\ AllZero /\ text = EmptyText) =>
        /\ risk_result.level = "Low"
        /\ action_result.actions = {"No action required"}
        /\ action_result.banner_message = "Content appears safe"

\* the canonical banner texts of the claim
C10_Canonical(level) ==
    CASE level = "High" -> "Content violates safety guidelines - review required"
      [] level = "Medium" -> "Content may need review - check for context"
      [] level = "Low" -> "Content appears safe"

\* C10: when no category meets its action threshold, the banner is the
\* canonical message of the risk level
C10_CanonicalBanner ==
    (pc = "resolved" /\ NoCategoryFired)
        => action_result.banner_message = C10_Canonical(risk_result.level)

\* scores {threat: 0.9, violence: 0.75, all others 0} with text "I will kill you"
C11_Input ==
    /\ ~IsNone(classification) /\ Categories \subseteq DOMAIN classification
    /\ \A k \in Categories :
          classification[k] = Num(IF k = "threat" THEN 900 ELSE IF k = "violence" THEN 750 ELSE 0)
    /\ text = Text(Sp(<<"i", "will", "kill", "you">>), {1})

\* the entries of reasons that report a threshold crossing or the text-feature
\* boost of this input
C11_ThresholdAndBoostLines ==
    {"violence > 0.30 (score 0.75)", "threat > 0.30 (score 0.90)", "text features boost +0.25"}

\* C11: for scores {threat: 0.9, violence: 0.75} and text "I will kill you" the
\* level is High, reasons hold the threat-threshold line and an entry that shows
\* the keyword floor, and the actions include "Block content" and "Flag for
\* human review"
C11_ThreatScenario ==
    (pc = "resolved" /\ C11_Input) =>
        /\ risk_result.level = "High"
        /\ \E i \in DOMAIN risk_result.reasons :
              risk_result.reasons[i] = "threat > 0.30 (score 0.90)"
        /\ \E i \in DOMAIN risk_result.reasons :
              risk_result.reasons[i] \notin C11_ThresholdAndBoostLines
        /\ {"Block content", "Flag for human review"} \subseteq action_result.actions

\* spam is the only category with a non-zero confidence
C12_SpamOnly ==
    /\ ~IsNone(classification) /\ Categories \subseteq DOMAIN classification
    /\ classification["spam"].num > 0
    /\ \A k \in Categories \ {"spam"} : classification[k] = Num(0)

\* the phrases of the text-feature and keyword families
C12_Phrases ==
    { Sp(<<"kill", "you">>), Sp(<<"i", "will", "kill">>), Sp(<<"i", "will", "hurt">>),
      Sp(<<"i", "want", "to", "die">>), Sp(<<"want", "to", "die">>), Sp(<<"kill", "myself">>),
      <<"suicide">>, <<"murder">>, <<"rape">>,
      Sp(<<"i", "will", "kill", "you">>), <<"i", "'", "m", " ">> \o Sp(<<"going", "to", "kill">>),
      Sp(<<"i", "will", "murder">>), Sp(<<"i", "will", "hurt", "you">>),
      Sp(<<"send", "nudes">>), Sp(<<"send", "pics">>), Sp(<<"show", "me", "nude">>),
      Sp(<<"send", "pictures">>) }

\* the text has nothing to do with any family: no phrase, no run of '!'
C12_UnrelatedText ==
    /\ ~IsNone(text)
    /\ \A p \in C12_Phrases : ~Occurs(p, text)
    /\ count(text, "!") <= 2

C13_DeclarationIndex(cat) ==
    CASE cat = "violence" -> 1 [] cat = "hate_speech" -> 2 [] cat = "profanity" -> 3
      [] cat = "sexual" -> 4 [] cat = "spam" -> 5 [] cat = "threat" -> 6

\* the confidence evaluate works with for cat, unit 0.001
CoercedConfidence(cat) ==
    IF IsNone(classification) \/ cat \notin DOMAIN classification THEN 0
    ELSE IF IsNum(classification[cat]) THEN classification[cat].num ELSE 0

\* C13: top_contributors holds exactly the configured categories whose rounded
\* contribution is greater than 0, each once, by contribution descending, and
\* equal contributions in declaration order
C13_TopContributorsOrdered ==
    FromEvaluate =>
        LET tc == risk_result.top_contributors
        IN  /\ {tc[i].category : i \in DOMAIN tc}
                  = {c \in Categories : risk_result.contributions[c] > 0}
            /\ Len(tc) = Cardinality({tc[i].category : i \in DOMAIN tc})
            /\ \A i \in DOMAIN tc :
                  /\ tc[i].contribution = risk_result.contributions[tc[i].category]
                  /\ tc[i].score = CoercedConfidence(tc[i].category)
            /\ \A i, j \in DOMAIN tc :
                  i < j => \/ tc[i].contribution > tc[j].contribution
                           \/ /\ tc[i].contribution = tc[j].contribution
                              /\ C13_DeclarationIndex(tc[i].category)
                                    < C13_DeclarationIndex(tc[j].category)

\* hate_speech 0.6 and spam 1.5 both contribute 0.3: hate_speech comes first
C13_Witness ==
    /\ pc = "evaluated" /\ FromEvaluate
    /\ Len(risk_result.top_contributors) = 2
    /\ risk_result.top_contributors[1].category = "hate_speech"
    /\ risk_result.top_contributors[2].category = "spam"
    /\ risk_result.top_contributors[1].contribution = 3000
    /\ risk_result.top_contributors[2].contribution = 3000

\* the arguments with 0.0 written out for every category that is missing or
\* not numeric, and "" for a missing text
C14_ZeroFilled == [k \in Categories |-> Num(CoercedConfidence(k))]

C14_TextOrEmpty == IF IsNone(text) THEN EmptyText ELSE text

\* C14: evaluate returns for a missing classification, a missing category, a
\* non-numeric value or a missing text exactly the score, level, reasons,
\* contributions and top_contributors it returns with 0.0, respectively "",
\* in their place
C14_DefensiveCoercion ==
    (pc = "evaluated" /\ FromEvaluate) =>
        risk_result = evaluate(C14_ZeroFilled, C14_TextOrEmpty, risk_result.audit_id)

\* evaluate returned for a mapping with an unparsable value and a missing
\* category and for a missing text
C14_Witness ==
    /\ pc = "evaluated" /\ FromEvaluate
    /\ IsNone(text)
    /\ ~IsNone(classification)
    /\ \E k \in DOMAIN classification : ~IsNum(classification[k])
    /\ \E k \in Categories : k \notin DOMAIN classification
    /\ risk_result.score = 0 /\ risk_result.level = "Low"
    /\ risk_result.reasons = <<>> /\ risk_result.top_contributors = <<>>

\* C15: determine_actions is total: for every risk result and every
\* classification argument, None included, it returns a result with non-empty
\* actions, a banner message and an explanation, and never raises
C15_TotalFunction ==
    /\ pc # "raised"
    /\ pc = "resolved" =>
          /\ action_result.actions # {}
          /\ action_result.banner_message # ""
          /\ action_result.explanation.sentence1 # ""

\* one step of a request, in the order classification, evaluate,
\* determine_actions, storage/audit, each on the data of the step before
C16_Step ==
    \/ /\ pc = "idle" /\ pc' = "submitted"
       /\ ~IsNone(classification') /\ IsNone(risk_result') /\ IsNone(action_result')
       /\ IsNone(stored')
    \/ /\ pc = "submitted" /\ pc' = "evaluated"
       /\ ~IsNone(classification)
       /\ UNCHANGED <<classification, text, nlp_analysis, stored>>
       /\ FromEvaluate'
       /\ risk_result' = evaluate(classification, text, risk_result'.audit_id)
       /\ IsNone(action_result')
    \/ /\ pc = "evaluated" /\ pc' = "resolved"
       /\ UNCHANGED <<classification, text, nlp_analysis, risk_result, stored>>
       /\ action_result' = determine_actions(risk_result, classification, nlp_analysis)
    \/ /\ pc = "resolved" /\ pc' = "stored"
       /\ ~IsNone(risk_result) /\ ~IsNone(action_result)
       /\ UNCHANGED <<classification, text, nlp_analysis, risk_result, action_result>>
       /\ stored'.audit \in {None, [classification |-> classification,
                                    risk_result    |-> risk_result,
                                    action_result  |-> action_result]}
    \/ /\ pc = "resolved" /\ pc' = "failed"
       /\ UNCHANGED <<classification, text, nlp_analysis, risk_result, action_result, stored>>
    \/ /\ pc = "idle" /\ pc' = "failed"
       /\ IsNone(classification') /\ IsNone(risk_result') /\ IsNone(action_result')
       /\ IsNone(stored')
    \/ /\ pc = "stored" /\ pc' = "submitted"
       /\ IsNone(risk_result') /\ IsNone(action_result') /\ IsNone(stored')

\* C16: within a request the steps run in strict sequence: classification
\* before evaluate, evaluate before determine_actions, determine_actions on the
\* risk result and classification of that request, and the hand-over to
\* storage/audit only once both results exist; no step is skipped or reordered
C16_StrictSequence == [][C16_Step]_vars

\* a request went through all four steps and its decision was handed over
C16_Witness ==
    /\ pc = "stored" /\ FromEvaluate
    /\ ~IsNone(action_result)
    /\ ~IsNone(stored.retrieval)
    /\ stored.retrieval.risk_score = risk_result.score
    /\ stored.retrieval.actions = action_result.actions
    /\ ~IsNone(stored.audit)
    /\ stored.audit.risk_result = risk_result
    /\ stored.audit.action_result = action_result

\* what the calls in h leave for receiver r: the data of the last send to r
\* that no later clear(r) removed, None when there is none
RECURSIVE C17_Latest(_, _)
C17_Latest(h, r) ==
    IF h = <<>> THEN None
    ELSE LET last == h[Len(h)]
         IN  IF last.receiver = r /\ last.op = "send" THEN last.data
             ELSE IF last.receiver = r /\ last.op = "clear" THEN None
             ELSE C17_Latest(SubSeq(h, 1, Len(h) - 1), r)

\* C17: the bus keeps at most one message per receiver, the latest: after any
\* sequence of send, receive and clear, receive(r) returns the data of the most
\* recent send to r since the last clear(r), or None; a receive consumes
\* nothing, and a send or clear for r leaves the other receivers' messages alone
C17_LatestWins ==
    /\ \A r \in BusAgents : receive(_messages, r) = C17_Latest(history, r)
    /\ (history # <<>> /\ history[Len(history)].op = "receive") =>
          /\ returned.receiver = history[Len(history)].receiver
          /\ returned.data = C17_Latest(history, returned.receiver)

\* a second send to the same receiver replaced the first, and the receive
\* after it returned the second one's data
C17_Witness ==
    /\ Len(history) = 3
    /\ history[1].op = "send" /\ history[2].op = "send" /\ history[3].op = "receive"
    /\ history[1].receiver = history[2].receiver
    /\ history[3].receiver = history[2].receiver
    /\ history[1].data # history[2].data
    /\ returned.data = history[2].data

\* the text is one run of upper-case letters, longer than 10 characters
C18_LongAllCaps ==
    /\ ~IsNone(text)
    /\ text.atoms # <<>>
    /\ \A i \in DOMAIN text.atoms : IsWord(text.atoms[i]) /\ i \in text.caps
    /\ len(text) > 10

\* C18: a text made only of upper-case letters and longer than 10 characters
\* gets the all-caps boost of 0.10: with all-zero scores and no other family
\* matched, the score is 0.10 and reasons holds a "text features boost" entry
C18_AllCapsBoost ==
    (pc = "evaluated" /\ FromEvaluate /\ AllZero /\ C18_LongAllCaps /\ C12_UnrelatedText) =>
        /\ risk_result.score = 1000
        /\ \E i \in DOMAIN risk_result.reasons :
              risk_result.reasons[i] = "text features boost +0.10"

\* the threat phrases and the solicitation phrases of the text features
C19_ThreatPhrases ==
    { Sp(<<"kill", "you">>), Sp(<<"i", "will", "kill">>), Sp(<<"i", "will", "hurt">>),
      Sp(<<"i", "want", "to", "die">>), Sp(<<"kill", "myself">>), <<"suicide">>,
      <<"murder">>, <<"rape">> }

C19_SolicitationPhrases ==
    { Sp(<<"send", "nudes">>), Sp(<<"send", "pics">>), Sp(<<"show", "me", "nude">>),
      Sp(<<"send", "pictures">>) }

\* the sum over the matched families, unit 0.01: 0.25, 0.20 and 0.05
C19_FamilySum(t) ==
    (IF \E p \in C19_ThreatPhrases : Occurs(p, t) THEN 25 ELSE 0)
    + (IF \E p \in C19_SolicitationPhrases : Occurs(p, t) THEN 20 ELSE 0)
    + (IF count(t, "!") > 2 THEN 5 ELSE 0)

C19_BoostLine(amount) ==
    CASE amount = 5  -> "text features boost +0.05"
      [] amount = 20 -> "text features boost +0.20"
      [] amount = 25 -> "text features boost +0.25"
      [] amount = 30 -> "text features boost +0.30"
      [] amount = 45 -> "text features boost +0.45"
      [] amount = 50 -> "text features boost +0.50"

C19_BoostLines == {C19_BoostLine(a) : a \in {5, 20, 25, 30, 45, 50}}

\* C19: the text-feature boost counts each family once however many of its
\* patterns match (threat phrases 0.25, solicitation phrases 0.20, more than two
\* '!' 0.05), is the sum over the matched families, is at most 1.0, and reasons
\* gets a "text features boost +<amount>" entry if and only if it is above 0
C19_BoostPerFamily ==
    FromEvaluate =>
        LET sum   == C19_FamilySum(C14_TextOrEmpty)
            lines == {i \in DOMAIN risk_result.reasons :
                         risk_result.reasons[i] \in C19_BoostLines}
        IN  /\ sum <= 100
            /\ sum = 0 => lines = {}
            /\ sum > 0 =>
                  /\ lines = {Len(risk_result.reasons)}
                  /\ risk_result.reasons[Len(risk_result.reasons)] = C19_BoostLine(sum)

\* a text that matches two threat patterns, a solicitation pattern and has
\* three '!' got 0.25 + 0.20 + 0.05
C19_Witness ==
    /\ pc = "evaluated" /\ FromEvaluate /\ ~IsNone(text)
    /\ Occurs(Sp(<<"kill", "you">>), text) /\ Occurs(Sp(<<"i", "will", "kill">>), text)
    /\ Occurs(Sp(<<"send", "nudes">>), text)
    /\ count(text, "!") = 3
    /\ risk_result.reasons # <<>>
    /\ risk_result.reasons[Len(risk_result.reasons)] = "text features boost +0.50"

\* the direct-threat phrases of the keyword floors
C20_DirectThreatPhrases ==
    { Sp(<<"i", "will", "kill", "you">>), <<"i", "'", "m", " ">> \o Sp(<<"going", "to", "kill">>),
      Sp(<<"i", "will", "murder">>), Sp(<<"i", "will", "hurt", "you">>) }

\* the floors of the families the text t matches, unit 0.0001
C20_Floors(t) ==
    (IF \E p \in C5_Phrases : Occurs(p, t) THEN {8500} ELSE {})
    \cup (IF \E p \in C20_DirectThreatPhrases : Occurs(p, t) THEN {8000} ELSE {})
    \cup (IF \E p \in C19_SolicitationPhrases : Occurs(p, t) THEN {6000} ELSE {})

\* the running score evaluate hands to _apply_keyword_boosts at line 106
C20_CurrentScore ==
    AddTextBoost(Combine(Normalize(classification), Len(CategoryOrder)),
                 _evaluate_text_features(lower(C14_TextOrEmpty))).risk_score

C20_Floored == _apply_keyword_boosts(lower(C14_TextOrEmpty), C20_CurrentScore)

\* C20: _apply_keyword_boosts never lowers the score: its result is >= its
\* input for every text, is the input when no family matches, and is at least
\* the highest floor among the families the text matches (self-harm 0.85,
\* direct threat 0.80, solicitation 0.60)
C20_FloorsNeverReduce ==
    (pc = "evaluated" /\ FromEvaluate) =>
        /\ ~FLess(C20_Floored, C20_CurrentScore)
        /\ C20_Floors(C14_TextOrEmpty) = {} => C20_Floored = C20_CurrentScore
        /\ \A floor \in C20_Floors(C14_TextOrEmpty) : ~FLess(C20_Floored, FromDecimal(floor))
        /\ risk_result.score = Round4(Clamp(C20_Floored))

\* a text of all three families over all-zero scores: the boost 0.45 was
\* raised to the self-harm floor
C20_Witness ==
    /\ pc = "evaluated" /\ FromEvaluate /\ AllZero
    /\ C20_Floors(C14_TextOrEmpty) = {8500, 8000, 6000}
    /\ Round4(C20_CurrentScore) = 4500
    /\ risk_result.score = 8500

\* the trigger thresholds and the weights the specification lists, unit 0.001
\* and 0.01
C21_TriggerThreshold(cat) ==
    CASE cat = "violence" -> 300 [] cat = "hate_speech" -> 400 [] cat = "profanity" -> 500
      [] cat = "sexual" -> 400 [] cat = "spam" -> 600 [] cat = "threat" -> 300

C21_Weight(cat) ==
    CASE cat = "violence" -> 70 [] cat = "hate_speech" -> 50 [] cat = "profanity" -> 25
      [] cat = "sexual" -> 60 [] cat = "spam" -> 20 [] cat = "threat" -> 80

C21_Triggered(cat) == CoercedConfidence(cat) > C21_TriggerThreshold(cat)

C21_ReasonLine(cat) ==
    ThresholdReason(cat, C21_TriggerThreshold(cat) \div 10, CoercedConfidence(cat))

\* the contributions of the triggered categories among the first n, added up,
\* unit 0.0001
RECURSIVE C21_Added(_)
C21_Added(n) ==
    IF n = 0 THEN 0
    ELSE C21_Added(n - 1)
         + (IF C21_Triggered(CategoryOrder[n])
            THEN Contribution(CoercedConfidence(CategoryOrder[n]),
                              C21_Weight(CategoryOrder[n]))
            ELSE 0)

\* C21: a category's contribution is added to the score and its reason line
\* appended if and only if its confidence is strictly greater than its trigger
\* threshold; a confidence equal to the threshold adds nothing and gives no
\* reason line, yet its contribution is in contributions and top_contributors
C21_StrictTrigger ==
    (pc = "evaluated" /\ FromEvaluate) =>
        /\ \A cat \in Categories :
              /\ C21_Triggered(cat)
                    <=> C21_ReasonLine(cat) \in Range(risk_result.reasons)
              /\ risk_result.contributions[cat]
                    = Contribution(CoercedConfidence(cat), C21_Weight(cat))
              /\ risk_result.contributions[cat] > 0 =>
                    \E i \in DOMAIN risk_result.top_contributors :
                        /\ risk_result.top_contributors[i].category = cat
                        /\ risk_result.top_contributors[i].contribution
                              = risk_result.contributions[cat]
        /\ (C19_FamilySum(C14_TextOrEmpty) = 0 /\ C20_Floors(C14_TextOrEmpty) = {}) =>
              risk_result.score
                  = (IF C21_Added(Len(CategoryOrder)) > 10000 THEN 10000
                     ELSE C21_Added(Len(CategoryOrder)))

\* spam at exactly its threshold 0.60: nothing added, no reason line, and the
\* contribution 0.12 listed
C21_Witness ==
    /\ pc = "evaluated" /\ FromEvaluate /\ ~IsNone(classification)
    /\ "spam" \in DOMAIN classification /\ classification["spam"] = Num(600)
    /\ risk_result.score = 0 /\ risk_result.reasons = <<>>
    /\ risk_result.contributions["spam"] = 1200
    /\ \E i \in DOMAIN risk_result.top_contributors :
          /\ risk_result.top_contributors[i].category = "spam"
          /\ risk_result.top_contributors[i].contribution = 1200

\* the action thresholds the specification lists, unit 0.001
C22_ActionThreshold(cat) ==
    CASE cat = "sexual" -> 600 [] cat = "threat" -> 500 [] cat = "violence" -> 500
      [] cat = "hate_speech" -> 500 [] cat = "profanity" -> 600 [] cat = "spam" -> 600

\* the categories of top_contributors whose raw score meets the action
\* threshold: they drive the actions, the policies and the banner
C22_Driving ==
    {cat \in Categories :
        \E i \in DOMAIN TopContributors :
            /\ TopContributors[i].category = cat
            /\ TopContributors[i].score >= C22_ActionThreshold(cat)}

\* C22: the action bar is stricter than the trigger bar: every category that
\* drives an action, a policy or a banner sentence has a confidence above its
\* trigger threshold, so it was added to the score and has a reason line
C22_ActionBarStricter ==
    (pc = "resolved" /\ FromEvaluate) =>
        \A cat \in C22_Driving :
            /\ CoercedConfidence(cat) > C21_TriggerThreshold(cat)
            /\ C21_ReasonLine(cat) \in Range(risk_result.reasons)

\* the entry's raw score is at or above the action threshold of its category
\* (0.5 for a category without one)
C23_AtOrAbove(entry) ==
    Get(entry, "score", 0)
        >= (IF CategoryOf(entry) \in Categories THEN C22_ActionThreshold(CategoryOf(entry))
            ELSE 500)

C23_Selected == {i \in DOMAIN TopContributors : C23_AtOrAbove(TopContributors[i])}

\* the union of ACTION_MAP[level][category] over the selected entries
C23_ActionUnion ==
    UNION {IF RiskLevel \in DOMAIN ACTION_MAP
              /\ CategoryOf(TopContributors[i]) \in DOMAIN ACTION_MAP[RiskLevel]
           THEN Range(ACTION_MAP[RiskLevel][CategoryOf(TopContributors[i])])
           ELSE {} : i \in C23_Selected}

C23_PolicyUnion ==
    UNION {Range(get_policy(CategoryOf(TopContributors[i]))) : i \in C23_Selected}

\* the level-wide escalation and the fallback applied to the union
C23_AfterEscalation ==
    LET escalated ==
            C23_ActionUnion
            \cup (IF RiskLevel = "High" THEN {"Flag for human review", "Block content"}
                  ELSE IF RiskLevel = "Medium" THEN {"Flag for human review"}
                  ELSE {})
    IN  IF escalated = {} THEN {"No action required"} ELSE escalated

\* the explanation sentences of the selected entries, in order
C23_Sentences ==
    LET idx == SelectSeq([i \in DOMAIN TopContributors |-> i],
                         LAMBDA i : /\ i \in C23_Selected
                                    /\ CategoryOf(TopContributors[i]) \in Categories)
    IN  [k \in DOMAIN idx |-> CATEGORY_EXPLANATIONS[CategoryOf(TopContributors[idx[k]])]]

\* C23: the actions are the level-wide escalation applied to exactly the union
\* of ACTION_MAP[level][category] over the top_contributors entries whose raw
\* score is >= the category's action threshold, the policies are exactly the
\* union of those categories' policy texts, and an entry below its threshold
\* adds no action, policy or banner sentence
C23_SelectedUnion ==
    pc = "resolved" =>
        /\ action_result.actions = C23_AfterEscalation
        /\ action_result.policies = C23_PolicyUnion
        /\ action_result.banner_message
              = (IF C23_ActionUnion = {} /\ RiskLevel \notin {"High", "Medium"}
                 THEN "No safety issues detected"
                 ELSE IF C23_Sentences # <<>> THEN Join(BannerSeparator, C23_Sentences)
                 ELSE LevelBanner(RiskLevel))

\* High with spam at exactly its action threshold 0.6 and profanity at 0.5,
\* below its threshold: the spam row and the spam policy only
C23_Witness ==
    /\ pc = "resolved" /\ RiskLevel = "High"
    /\ TopContributors = <<[category |-> "spam", score |-> 600],
                           [category |-> "profanity", score |-> 500]>>
    /\ action_result.actions
          = {"Auto-delete content", "Flag for human review", "Block content"}
    /\ action_result.policies = {"Spam content should be removed automatically or warned."}
    /\ action_result.banner_message = "This content appears to be spam or promotional."

\* the classification with the entry "normal" set to v, with one more key
\* that is none of the six, and cut down to the six categories
C24_WithNormal(v) == [classification EXCEPT !["normal"] = v]

C24_WithExtraKey == classification @@ [toxicity |-> Num(900)]

C24_SixOnly == [k \in Categories |-> classification[k]]

\* C24: evaluate ignores every category outside the six configured ones, the
\* derived "normal" score among them: score, level, reasons, contributions and
\* top_contributors are those of the six categories alone, whatever the value
\* of the other entries
C24_UnknownCategoriesIgnored ==
    (pc = "evaluated" /\ FromEvaluate /\ IsNone(first_run)) =>
        /\ "normal" \in DOMAIN classification
        /\ risk_result = evaluate(C24_SixOnly, text, risk_result.audit_id)
        /\ \A v \in {Num(0), Num(1000), Str("abc")} :
              risk_result = evaluate(C24_WithNormal(v), text, risk_result.audit_id)
        /\ risk_result = evaluate(C24_WithExtraKey, text, risk_result.audit_id)
        /\ DOMAIN risk_result.contributions = Categories
        /\ \A i \in DOMAIN risk_result.top_contributors :
              risk_result.top_contributors[i].category \in Categories

\* hate_speech 0.496 alone: "normal" is 0.504, above the default threshold, and
\* the score is the hate_speech contribution 0.248 with its one reason line
C24_Witness ==
    /\ pc = "evaluated" /\ FromEvaluate /\ text = EmptyText
    /\ classification["normal"] = Num(504)
    /\ classification["hate_speech"] = Num(496)
    /\ risk_result.score = 2480
    /\ risk_result.reasons = <<"hate_speech > 0.40 (score 0.50)">>
    /\ Len(risk_result.top_contributors) = 1

\* one step of a sequence of calls: the tables of the RiskAgent are the ones
\* it was constructed with, evaluate leaves its arguments as they were, so does
\* determine_actions, and the result for an item that was handled before is the
\* result it got then (the audit_id apart)
C25_Step ==
    /\ thresholds' = DEFAULT_THRESHOLDS
    /\ weights' = DEFAULT_WEIGHTS
    /\ levels' = LEVELS
    /\ (pc = "submitted" /\ pc' = "evaluated") =>
          /\ classification' = classification
          /\ text' = text
    /\ (pc = "evaluated" /\ pc' \in {"resolved", "raised"}) =>
          /\ risk_result' = risk_result
          /\ classification' = classification
          /\ nlp_analysis' = nlp_analysis
    /\ (pc' = "evaluated" /\ ~IsNone(first_run')) =>
          [risk_result' EXCEPT !.audit_id = ""] = [first_run'.risk EXCEPT !.audit_id = ""]
    /\ (pc' = "resolved" /\ ~IsNone(first_run')) => action_result' = first_run'.action

C26_Returned == ~IsNone(response)

\* C26: persistence is best-effort and non-blocking: once the risk result and
\* the action result are computed, no failure while recording the decision
\* keeps moderate_content from returning the moderation response with the
\* computed score, level and actions
C26_PersistenceNonBlocking ==
    (C26_Returned /\ ~IsNone(risk_result) /\ ~IsNone(action_result)) =>
        /\ response.status = 200
        /\ response.risk_score.score = risk_result.score
        /\ response.risk_score.level = risk_result.level
        /\ response.action.actions = action_result.actions

\* C27: when the classifier fails or returns an error, the caller puts all-zero
\* scores in its place and still calls evaluate and determine_actions, so the
\* request ends with a well-formed result (Low and "No action required" for a
\* text without keyword matches) and not with an error
C27_NeutralScoresOnClassifierError ==
    (C26_Returned /\ classification_result.status = "error") =>
        /\ response.status = 200
        /\ ~IsNone(risk_result) /\ ~IsNone(action_result)
        /\ \A k \in Categories : CoercedConfidence(k) = 0
        /\ C12_UnrelatedText =>
              /\ response.risk_score.level = "Low"
              /\ response.action.actions = {"No action required"}

C29_NoActionStandsAlone ==
    pc = "resolved" =>
        /\ "No action required" \in action_result.actions =>
              action_result.actions = {"No action required"}
        /\ RiskLevel = "Low" => action_result.actions = {"No action required"}

\* Low with violence and spam both at their action thresholds
C29_Witness ==
    /\ pc = "resolved" /\ RiskLevel = "Low"
    /\ Len(TopContributors) = 2
    /\ \A i \in DOMAIN TopContributors :
          /\ CategoryOf(TopContributors[i]) \in Categories
          /\ C23_AtOrAbove(TopContributors[i])
    /\ CategoryOf(TopContributors[1]) # CategoryOf(TopContributors[2])
    /\ action_result.actions = {"No action required"}
    /\ Cardinality(action_result.policies) = 2

\* the items for which an approve or reject decision was submitted and accepted
C30_Decided ==
    {reviews[i].audit_id.str : i \in {j \in DOMAIN reviews : reviews[j].status = 200}}

C30_RecordedActions(audit_id) ==
    UNION {Range(audit_logs[i].actions_taken) :
              i \in {j \in DOMAIN audit_logs : audit_logs[j].audit_id = audit_id}}

C30_QueueIds ==
    IF ~IsNone(review_response) /\ "queue" \in DOMAIN review_response
    THEN {review_response.queue[i].audit_id : i \in DOMAIN review_response.queue}
    ELSE {}

\* C30: the review queue lists only audit items whose recorded actions contain
\* "Flag for human review" and that have no recorded review decision; once an
\* approve or reject decision is submitted for an item, its recorded actions no
\* longer contain "Flag for human review" but the moderator's outcome, and the
\* item is in no later review queue, whatever requests and decisions follow
C30_ReviewWorkflow ==
    /\ \A id \in C30_QueueIds :
          /\ "Flag for human review" \in C30_RecordedActions(id)
          /\ \A i \in DOMAIN system_events : system_events[i].metadata.audit_id # id
          /\ id \notin C30_Decided
    /\ \A id \in C30_Decided :
          /\ "Flag for human review" \notin C30_RecordedActions(id)
          /\ \/ "Approved by moderator" \in C30_RecordedActions(id)
             \/ {"Rejected by moderator", "Content removed"} \subseteq C30_RecordedActions(id)

\* two flagged items, the first one rejected: the queue asked for afterwards
\* lists the second one only
C30_Witness ==
    /\ Len(audit_logs) = 2
    /\ C30_Decided = {audit_logs[1].audit_id}
    /\ audit_logs[1].actions_taken = <<"Block content", "Rejected by moderator", "Content removed">>
    /\ C30_QueueIds = {audit_logs[2].audit_id}
    /\ review_response.queue[1].actions_taken = <<"Flag for human review", "Warn user">>

====
